---- MODULE Spec2Model ----
(***************************************************************************)
(* A model of the EVMC example VM (examples/example_vm/example_vm.cpp):    *)
(* the execute() dispatch loop with its Stack and Memory, and the host     *)
(* interface it calls.  One action per switch case of the loop.            *)
(*                                                                         *)
(* Words (evmc_uint256be) are functions 0..31 -> 0..255, big-endian, so    *)
(* bytes[31] of the source is w[31] here.  Addresses are 0..19 -> 0..255.  *)
(* The code buffer, input buffer and outputs are sequences; CodeAt and     *)
(* InputAt give the 0-based indexing of the source.                        *)
(*                                                                         *)
(* The source checks neither stack bounds nor the code bound of PUSH1.     *)
(* A read outside an array yields a nondeterministically chosen value, a   *)
(* write outside the stack array lands in the cell next to it; both are    *)
(* recorded in the variable ub.                                            *)
(***************************************************************************)
EXTENDS Integers, Sequences, FiniteSets

VARIABLES
    state,          \* "idle" before execute(), "running" in the loop, "halted" after return
    code,           \* the code buffer (code, code_size)
    rev,            \* the revision
    msg,            \* the message: gas, destination, input_data
    pc,             \* the loop variable pc
    gas_left,       \* the local gas_left
    sp,             \* Stack::pointer - Stack::items
    items,          \* Stack::items, the cells written so far
    memory,         \* Memory: size and data
    storage,        \* the host's storage, <<address, key>> -> Word
    tx_context,     \* the host's transaction context: block_number
    storage_before, \* the host's storage when execute() was called
    verbose,        \* ExampleVM::verbose
    option_call,    \* the last set_option call: name, value and what it returned
    recorded_calls, \* the messages the host received through call()
    call_log,       \* per CALL executed: the operands popped and the nested result
    result,         \* the evmc_result returned by execute()
    executed,       \* the number of instructions dispatched by the switch
    trace,          \* the reads, writes and host calls made so far, in order
    ub              \* the kinds of undefined behaviour the execution ran into

vars == <<state, code, rev, msg, pc, gas_left, sp, items, memory, storage,
          tx_context, storage_before, verbose, option_call, recorded_calls, call_log, result, executed, trace, ub>>

----------------------------------------------------------------------------
(* Program constants *)

StackCapacity == 1024
MemoryCapacity == 1024
WordSize == 32
AddressSize == 20
ByteRange == 256

EVMC_FRONTIER == 0
EVMC_BYZANTIUM == 4

OP_STOP == 0
OP_ADD == 1
OP_ADDRESS == 48
OP_CALLDATALOAD == 53
OP_NUMBER == 67
OP_MSTORE == 82
OP_SLOAD == 84
OP_SSTORE == 85
OP_MSIZE == 89
OP_PUSH1 == 96
OP_DUP1 == 128
OP_CALL == 241
OP_RETURN == 243
OP_REVERT == 253

Opcodes == {OP_STOP, OP_ADD, OP_ADDRESS, OP_CALLDATALOAD, OP_NUMBER, OP_MSTORE,
            OP_SLOAD, OP_SSTORE, OP_MSIZE, OP_PUSH1, OP_DUP1, OP_CALL, OP_RETURN,
            OP_REVERT}

----------------------------------------------------------------------------
(* Words, addresses and byte strings *)

Min(a, b) == IF a < b THEN a ELSE b

ZeroWord == [i \in 0..(WordSize - 1) |-> 0]

\* evmc_uint256be value = {}; value.bytes[31] = b;
WordOfByte(b) == [i \in 0..(WordSize - 1) |-> IF i = WordSize - 1 THEN b ELSE 0]

\* stack.pop().bytes[31]
LowByte(w) == w[WordSize - 1]

\* std::memcpy(&value.bytes[12], address.bytes, sizeof(address.bytes))
WordOfAddress(a) ==
    [i \in 0..(WordSize - 1) |->
        IF i >= WordSize - AddressSize THEN a[i - (WordSize - AddressSize)] ELSE 0]

\* std::memcpy(call_msg.destination.bytes, &a.bytes[12], sizeof(call_msg.destination))
AddressOfWord(w) == [i \in 0..(AddressSize - 1) |-> w[i + (WordSize - AddressSize)]]

\* Mutant: the bytes of the word are taken least significant first.
WordBytes_little_endian(w) == [i \in 1..WordSize |-> w[WordSize - i]]

\* The bytes of a word as a sequence (value.bytes, sizeof(value)).
WordBytes(w) == [i \in 1..WordSize |-> w[i - 1]]

CodeAt(c, i) == c[i + 1]
InputAt(d, i) == d[i + 1]

----------------------------------------------------------------------------
(* Bounds of the model and the inputs drawn within them *)

MaxCodeLen == 2         \* every code buffer over Alphabet up to this length is tried
MaxGas == 2             \* the short code buffers run with gas -1..MaxGas
UndefinedOpcode == 254  \* a byte the switch has no case for

\* CALL pops seven operands: on short buffers it only underflows, which the
\* one-instruction buffer <<OP_CALL>> covers.
Alphabet == (Opcodes \ {OP_CALL}) \cup {UndefinedOpcode}

RECURSIVE CodesOfLen(_)
CodesOfLen(n) ==
    IF n = 0 THEN {<<>>}
    ELSE {Append(c, b) : c \in CodesOfLen(n - 1), b \in Alphabet}

ShortCodes == UNION {CodesOfLen(n) : n \in 0..MaxCodeLen} \cup {<<OP_CALL>>}

\* 0xd00000000000000000000000000000000000000d, the destination of the unit tests
TestDestination ==
    [i \in 0..(AddressSize - 1) |-> IF i = 0 THEN 208 ELSE IF i = AddressSize - 1 THEN 13 ELSE 0]

\* PUSH1 n, DUP1 x 6: the seven operands of a CALL, all equal to n
CallOperands(n) == <<OP_PUSH1, n, OP_DUP1, OP_DUP1, OP_DUP1, OP_DUP1, OP_DUP1, OP_DUP1>>

\* ADDRESS, PUSH1 0, MSTORE: memory[12..31] holds the destination
StoreAddress == <<OP_ADDRESS, OP_PUSH1, 0, OP_MSTORE>>

\* The code buffers of the unit tests, and variations of the call test.
Code_return_address == StoreAddress \o <<OP_PUSH1, 20, OP_PUSH1, 12, OP_RETURN>>
Code_counter_in_storage ==
    <<OP_PUSH1, 1, OP_PUSH1, 0, OP_SLOAD, OP_ADD, OP_PUSH1, 0, OP_SSTORE, OP_STOP>>
Code_revert_block_number ==
    <<OP_NUMBER, OP_PUSH1, 0, OP_MSTORE, OP_PUSH1, 32, OP_PUSH1, 0, OP_REVERT>>
Code_call == CallOperands(3) \o <<OP_CALL, OP_MSIZE, OP_PUSH1, 0, OP_RETURN>>
Code_store_call(n) ==
    StoreAddress \o CallOperands(n) \o <<OP_CALL, OP_MSIZE, OP_PUSH1, 0, OP_RETURN>>
Code_calldata_call ==
    <<OP_PUSH1, 0, OP_CALLDATALOAD, OP_DUP1, OP_DUP1, OP_DUP1, OP_DUP1, OP_DUP1, OP_DUP1,
      OP_CALL, OP_STOP>>
Code_calldata ==
    <<OP_PUSH1, 3, OP_CALLDATALOAD, OP_PUSH1, 0, OP_MSTORE, OP_PUSH1, 32, OP_PUSH1, 0, OP_RETURN>>

\* A store that ends past offset 255, then MSIZE.
Code_store_high == <<OP_ADDRESS, OP_PUSH1, 255, OP_MSTORE, OP_MSIZE, OP_STOP>>

TestCodes ==
    {Code_return_address, Code_counter_in_storage, Code_revert_block_number, Code_call,
     Code_store_call(2), Code_store_call(14), Code_calldata_call,
     Code_calldata, Code_store_high}

TestGas == {6, 7, 100}

Revisions == {EVMC_FRONTIER, EVMC_BYZANTIUM, EVMC_BYZANTIUM + 1}

\* The 32 bytes of the word 0x0100
Input256 == [i \in 1..WordSize |-> IF i = WordSize - 1 THEN 1 ELSE 0]
Inputs == {<<>>, Input256}

BlockNumbers == {180, 436}

\* Values a read outside the stack array may find there.
JunkWords == {ZeroWord, [i \in 0..(WordSize - 1) |-> 255]}
\* Values a read past the end of the code buffer may find there.
JunkBytes == {0, 255}

\* Values of the storage slot with key 0 before the execution.
InitialValues == {WordOfByte(187), WordOfByte(255)}

\* What host.call may return: status, output, and whether release is non-null.
CallResults ==
    {[status_code |-> "EVMC_SUCCESS", output |-> <<170, 187, 204>>, release |-> TRUE],
     [status_code |-> "EVMC_SUCCESS", output |-> <<>>, release |-> FALSE],
     [status_code |-> "EVMC_REVERT", output |-> <<170, 187, 204>>, release |-> TRUE],
     [status_code |-> "EVMC_FAILURE", output |-> <<>>, release |-> FALSE]}

----------------------------------------------------------------------------
(* Stack *)

StackInBounds(i) == i >= 0 /\ i < StackCapacity

\* What reading items[i] yields: the value last written there when the cell is
\* inside the array, any value when it is not.
StackRead(its, i) ==
    IF StackInBounds(i) /\ i \in DOMAIN its THEN {its[i]}
    ELSE JunkWords \cup (IF i \in DOMAIN its THEN {its[i]} ELSE {})

\* items[i] = v
StackWrite(its, i, v) ==
    [j \in DOMAIN its \cup {i} |-> IF j = i THEN v ELSE its[j]]

\* The undefined behaviour of touching the cells lo..hi.
StackUB(lo, hi) ==
    IF lo < 0 \/ hi >= StackCapacity THEN {"stack_out_of_bounds"} ELSE {}

----------------------------------------------------------------------------
(* Memory *)

EmptyMemory == [size |-> 0, data |-> [i \in 0..(MemoryCapacity - 1) |-> 0]]

\* Memory::set(index, value_data, value_size), bytes being the value_size bytes
\* at value_data.
MemorySet(m, index, bytes) ==
    LET new_size == index + Len(bytes) IN
    [size |-> IF new_size > m.size THEN new_size ELSE m.size,
     data |-> [i \in 0..(MemoryCapacity - 1) |->
                 IF i >= index /\ i < index + Len(bytes) THEN bytes[i - index + 1]
                 ELSE m.data[i]]]

\* The size bytes at &memory.data[index].
MemorySlice(m, index, size) == [i \in 1..size |-> m.data[index + i - 1]]

----------------------------------------------------------------------------
(* Host *)

GetStorage(st, a, k) == IF <<a, k>> \in DOMAIN st THEN st[<<a, k>>] ELSE ZeroWord

SetStorage(st, a, k, v) ==
    [x \in DOMAIN st \cup {<<a, k>>} |-> IF x = <<a, k>> THEN v ELSE st[x]]

----------------------------------------------------------------------------
(* Events *)

\* An entry of trace: what was done (ev), where (at, n: an index and a length, 0
\* for a host call) and by which instruction (step, counted from 0).
Ev(e, a, n) == [ev |-> e, at |-> a, n |-> n, step |-> executed]

\* An entry of trace for host->get_storage and host->set_storage: the address
\* and key passed, and the value returned or passed.
StorageEv(e, a, k, v) ==
    [ev |-> e, at |-> 0, n |-> 0, step |-> executed, address |-> a, key |-> k, value |-> v]

NoResult == [status_code |-> "NONE", gas_left |-> 0, output |-> <<>>]

\* No set_option call has been made.
NoOptionCall == [name |-> "", value |-> [null |-> TRUE, chars |-> <<>>], returned |-> "NONE"]

----------------------------------------------------------------------------
(* The state before execute() is called *)

Init ==
    /\ state = "idle"
    /\ code = <<>>
    /\ rev = EVMC_FRONTIER
    /\ msg = [gas |-> 0, destination |-> TestDestination, input_data |-> <<>>]
    /\ pc = 0
    /\ gas_left = 0
    /\ sp = 0
    /\ items = <<>>
    /\ memory = EmptyMemory
    /\ storage = <<>>
    /\ tx_context = [block_number |-> 0]
    /\ storage_before = <<>>
    /\ verbose = 0
    /\ option_call = NoOptionCall
    /\ recorded_calls = <<>>
    /\ call_log = <<>>
    /\ result = NoResult
    /\ executed = 0
    /\ trace = <<>>
    /\ ub = {}

\* The call of execute(): the locals gas_left, stack and memory are set up and
\* the loop starts at pc = 0.
Enter(c, r, g, input, number, slot0) ==
    /\ state' = "running"
    /\ code' = c
    /\ rev' = r
    /\ msg' = [gas |-> g, destination |-> TestDestination, input_data |-> input]
    /\ pc' = 0
    /\ gas_left' = g
    /\ sp' = 0
    /\ items' = <<>>
    /\ memory' = EmptyMemory
    /\ storage' = SetStorage(<<>>, TestDestination, ZeroWord, slot0)
    /\ tx_context' = [block_number |-> number]
    /\ storage_before' = storage'
    /\ UNCHANGED <<verbose, option_call, recorded_calls, call_log, result, executed, trace, ub>>

Execute ==
    /\ state = "idle"
    /\ \/ \E c \in ShortCodes, g \in -1..MaxGas, r \in Revisions :
           Enter(c, r, g, Input256, 180, WordOfByte(187))
       \/ \E c \in TestCodes, g \in TestGas, r \in Revisions, input \in Inputs,
          number \in BlockNumbers, slot0 \in InitialValues :
           Enter(c, r, g, input, number, slot0)

----------------------------------------------------------------------------
(* The dispatch loop *)

\* Mutant: every instruction is charged 2 gas.
Charge_double(g) == g - 2

\* gas_left -= 1
Charge(g) == g - 1

\* Mutant: the gas check lets the counter reach -1.
OutOfGas_late(g) == g < -1

\* if (gas_left < 0)
OutOfGas(g) == g < 0

\* return evmc_make_result(status, gas, output_data, output_size)
Halt(status, gas, output) ==
    /\ state' = "halted"
    /\ result' = [status_code |-> status, gas_left |-> gas, output |-> output]

\* Mutant: the switch runs without the gas check having passed.
Dispatch_unchecked(op) ==
    /\ state = "running"
    /\ pc < Len(code)
    /\ CodeAt(code, pc) = op
    /\ gas_left' = Charge(gas_left)
    /\ executed' = executed + 1

\* The loop condition holds, the gas check passes and the switch selects op.
Dispatch(op) ==
    /\ state = "running"
    /\ pc < Len(code)
    /\ ~OutOfGas(Charge(gas_left))
    /\ CodeAt(code, pc) = op
    /\ gas_left' = Charge(gas_left)
    /\ executed' = executed + 1

\* Mutant: the instruction ends without the loop's pc++.
Break_stuck(events, cells) ==
    /\ pc' = pc
    /\ trace' = trace \o <<Ev("fetch", pc, 1)>> \o events
    /\ ub' = ub \cup cells
    /\ UNCHANGED <<state, result, code, rev, msg>>

\* The instruction ends with break: the loop's pc++ runs.
Break(events, cells) ==
    /\ pc' = pc + 1
    /\ trace' = trace \o <<Ev("fetch", pc, 1)>> \o events
    /\ ub' = ub \cup cells
    /\ UNCHANGED <<state, result, code, rev, msg>>

\* The instruction returns a result.
Return(status, gas, output, events, cells) ==
    /\ Halt(status, gas, output)
    /\ trace' = trace \o <<Ev("fetch", pc, 1)>> \o events
    /\ ub' = ub \cup cells
    /\ UNCHANGED <<pc, code, rev, msg>>

\* Mutant: falling off the end of the code is charged like an instruction.
EndOfCode_charged ==
    /\ state = "running"
    /\ ~(pc < Len(code))
    /\ Halt("EVMC_SUCCESS", Charge(gas_left), <<>>)
    /\ UNCHANGED <<code, rev, msg, pc, gas_left, sp, items, memory, storage, tx_context, storage_before, verbose, option_call,
                   recorded_calls, call_log, executed, trace, ub>>

\* for (...; pc < code_size; ...) fails: return evmc_make_result(EVMC_SUCCESS, gas_left, nullptr, 0)
EndOfCode ==
    /\ state = "running"
    /\ ~(pc < Len(code))
    /\ Halt("EVMC_SUCCESS", gas_left, <<>>)
    /\ UNCHANGED <<code, rev, msg, pc, gas_left, sp, items, memory, storage, tx_context, storage_before, verbose, option_call,
                   recorded_calls, call_log, executed, trace, ub>>

\* gas_left -= 1; if (gas_left < 0) return evmc_make_result(EVMC_OUT_OF_GAS, 0, nullptr, 0)
GasExhausted ==
    /\ state = "running"
    /\ pc < Len(code)
    /\ OutOfGas(Charge(gas_left))
    /\ gas_left' = Charge(gas_left)
    /\ Halt("EVMC_OUT_OF_GAS", 0, <<>>)
    /\ UNCHANGED <<code, rev, msg, pc, sp, items, memory, storage, tx_context, storage_before, verbose, option_call,
                   recorded_calls, call_log, executed, trace, ub>>

\* Mutant: an undefined instruction returns the gas that is left.
Undefined_keeps_gas ==
    /\ state = "running"
    /\ pc < Len(code)
    /\ CodeAt(code, pc) \notin Opcodes
    /\ Dispatch(CodeAt(code, pc))
    /\ Return("EVMC_UNDEFINED_INSTRUCTION", gas_left', <<>>, <<>>, {})
    /\ UNCHANGED <<sp, items, memory, storage, tx_context, storage_before, verbose, option_call, recorded_calls, call_log>>

\* Mutant: the switch finds no case for the opcode before gas is checked.
Undefined_decode_first ==
    /\ state = "running"
    /\ pc < Len(code)
    /\ CodeAt(code, pc) \notin Opcodes
    /\ gas_left' = Charge(gas_left)
    /\ executed' = executed + 1
    /\ Return("EVMC_UNDEFINED_INSTRUCTION", 0, <<>>, <<>>, {})
    /\ UNCHANGED <<sp, items, memory, storage, tx_context, storage_before, verbose, option_call, recorded_calls, call_log>>

\* default: return evmc_make_result(EVMC_UNDEFINED_INSTRUCTION, 0, nullptr, 0)
Undefined ==
    /\ state = "running"
    /\ pc < Len(code)
    /\ CodeAt(code, pc) \notin Opcodes
    /\ Dispatch(CodeAt(code, pc))
    /\ Return("EVMC_UNDEFINED_INSTRUCTION", 0, <<>>, <<>>, {})
    /\ UNCHANGED <<sp, items, memory, storage, tx_context, storage_before, verbose, option_call, recorded_calls, call_log>>

\* case 0x00: STOP
Stop ==
    /\ Dispatch(OP_STOP)
    /\ Return("EVMC_SUCCESS", gas_left', <<>>, <<>>, {})
    /\ UNCHANGED <<sp, items, memory, storage, tx_context, storage_before, verbose, option_call, recorded_calls, call_log>>

\* uint8_t sum = static_cast<uint8_t>(a + b)
Sum(a, b) == (a + b) % ByteRange

\* case 0x01: ADD
Add ==
    /\ Dispatch(OP_ADD)
    /\ \E wa \in StackRead(items, sp - 1), wb \in StackRead(items, sp - 2) :
          /\ items' = StackWrite(items, sp - 2, WordOfByte(Sum(LowByte(wa), LowByte(wb))))
          /\ sp' = sp - 1
    /\ Break(<<>>, StackUB(sp - 2, sp - 1))
    /\ UNCHANGED <<memory, storage, tx_context, storage_before, verbose, option_call, recorded_calls, call_log>>

\* case 0x30: ADDRESS
Address ==
    /\ Dispatch(OP_ADDRESS)
    /\ items' = StackWrite(items, sp, WordOfAddress(msg.destination))
    /\ sp' = sp + 1
    /\ Break(<<>>, StackUB(sp, sp))
    /\ UNCHANGED <<memory, storage, tx_context, storage_before, verbose, option_call, recorded_calls, call_log>>

\* The word CALLDATALOAD builds from the input at offset.
CallDataWord(input, offset) ==
    LET partial == IF offset < Len(input) THEN Len(input) - offset ELSE 0
        copy_size == IF partial > WordSize THEN WordSize ELSE partial
    IN  [i \in 0..(WordSize - 1) |-> IF i < copy_size THEN InputAt(input, offset + i) ELSE 0]

\* case 0x35: CALLDATALOAD
CallDataLoad ==
    /\ Dispatch(OP_CALLDATALOAD)
    /\ \E w \in StackRead(items, sp - 1) :
          items' = StackWrite(items, sp - 1, CallDataWord(msg.input_data, LowByte(w)))
    /\ sp' = sp
    /\ Break(<<>>, StackUB(sp - 1, sp - 1))
    /\ UNCHANGED <<memory, storage, tx_context, storage_before, verbose, option_call, recorded_calls, call_log>>

\* static_cast<uint8_t>(host->get_tx_context(context).block_number)
NumberByte(n) == n % ByteRange

\* case 0x43: NUMBER
Number ==
    /\ Dispatch(OP_NUMBER)
    /\ items' = StackWrite(items, sp, WordOfByte(NumberByte(tx_context.block_number)))
    /\ sp' = sp + 1
    /\ Break(<<Ev("get_tx_context", 0, 0)>>, StackUB(sp, sp))
    /\ UNCHANGED <<memory, storage, tx_context, storage_before, verbose, option_call, recorded_calls, call_log>>

\* Mutant: the index is taken from the two low bytes of the operand.
MStore_wide_index ==
    /\ Dispatch(OP_MSTORE)
    /\ \E wi \in StackRead(items, sp - 1), value \in StackRead(items, sp - 2) :
          LET index == LowByte(wi) + ByteRange * wi[WordSize - 2]
          IN  /\ memory' = MemorySet(memory, index, WordBytes(value))
              /\ Break(<<Ev("mem_write", index, WordSize)>>, StackUB(sp - 2, sp - 1))
    /\ sp' = sp - 2
    /\ UNCHANGED <<items, storage, tx_context, storage_before, verbose, option_call, recorded_calls, call_log>>

\* case 0x52: MSTORE
MStore ==
    /\ Dispatch(OP_MSTORE)
    /\ \E wi \in StackRead(items, sp - 1), value \in StackRead(items, sp - 2) :
          /\ memory' = MemorySet(memory, LowByte(wi), WordBytes(value))
          /\ Break(<<Ev("mem_write", LowByte(wi), WordSize)>>, StackUB(sp - 2, sp - 1))
    /\ sp' = sp - 2
    /\ UNCHANGED <<items, storage, tx_context, storage_before, verbose, option_call, recorded_calls, call_log>>

\* case 0x54: SLOAD
SLoad ==
    /\ Dispatch(OP_SLOAD)
    /\ \E index \in StackRead(items, sp - 1) :
          LET value == GetStorage(storage, msg.destination, index)
          IN  /\ items' = StackWrite(items, sp - 1, value)
              /\ Break(<<StorageEv("get_storage", msg.destination, index, value)>>,
                       StackUB(sp - 1, sp - 1))
    /\ sp' = sp
    /\ UNCHANGED <<memory, storage, tx_context, storage_before, verbose, option_call, recorded_calls, call_log>>

\* case 0x55: SSTORE
SStore ==
    /\ Dispatch(OP_SSTORE)
    /\ \E index \in StackRead(items, sp - 1), value \in StackRead(items, sp - 2) :
          /\ storage' = SetStorage(storage, msg.destination, index, value)
          /\ Break(<<StorageEv("set_storage", msg.destination, index, value)>>,
                   StackUB(sp - 2, sp - 1))
    /\ sp' = sp - 2
    /\ UNCHANGED <<items, memory, tx_context, storage_before, verbose, option_call, recorded_calls, call_log>>

\* uint8_t size_as_byte = static_cast<uint8_t>(memory.size)
SizeAsByte(m) == m.size % ByteRange

\* case 0x59: MSIZE
MSize ==
    /\ Dispatch(OP_MSIZE)
    /\ items' = StackWrite(items, sp, WordOfByte(SizeAsByte(memory)))
    /\ sp' = sp + 1
    /\ Break(<<>>, StackUB(sp, sp))
    /\ UNCHANGED <<memory, storage, tx_context, storage_before, verbose, option_call, recorded_calls, call_log>>

\* What reading code[i] yields: any byte when i is past the end of the buffer.
CodeRead(c, i) == IF i < Len(c) THEN {CodeAt(c, i)} ELSE JunkBytes

CodeUB(c, i) == IF i < Len(c) THEN {} ELSE {"code_out_of_bounds"}

\* case 0x60: PUSH1
Push1 ==
    /\ Dispatch(OP_PUSH1)
    /\ \E byte \in CodeRead(code, pc + 1) :
          items' = StackWrite(items, sp, WordOfByte(byte))
    /\ sp' = sp + 1
    /\ pc' = pc + 2
    /\ trace' = trace \o <<Ev("fetch", pc, 1), Ev("immediate", pc + 1, 1)>>
    /\ ub' = ub \cup StackUB(sp, sp) \cup CodeUB(code, pc + 1)
    /\ UNCHANGED <<state, result, code, rev, msg, memory, storage, tx_context, storage_before, verbose, option_call,
                   recorded_calls, call_log>>

\* case 0x80: DUP1
Dup1 ==
    /\ Dispatch(OP_DUP1)
    /\ \E value \in StackRead(items, sp - 1) :
          items' = StackWrite(StackWrite(items, sp - 1, value), sp, value)
    /\ sp' = sp + 1
    /\ Break(<<>>, StackUB(sp - 1, sp))
    /\ UNCHANGED <<memory, storage, tx_context, storage_before, verbose, option_call, recorded_calls, call_log>>

\* evmc_message call_msg = {}, then the fields set from the operands popped:
\* gas, target, value, input offset and input size.
CallMessage(w_gas, w_target, w_value, w_in_off, w_in_len, m) ==
    [kind |-> 0,
     flags |-> 0,
     depth |-> 0,
     gas |-> LowByte(w_gas),
     destination |-> AddressOfWord(w_target),
     sender |-> [i \in 0..(AddressSize - 1) |-> 0],
     value |-> w_value,
     input_offset |-> LowByte(w_in_off),
     input_data |-> MemorySlice(m, LowByte(w_in_off), LowByte(w_in_len)),
     input_size |-> LowByte(w_in_len)]

\* Mutant: the whole nested output is copied, whatever length was requested.
CopySize_whole_output(call_output_size, output_size) == output_size

\* if (call_output_size > call_result.output_size) call_output_size = call_result.output_size
CopySize(call_output_size, output_size) ==
    IF call_output_size > output_size THEN output_size ELSE call_output_size

\* Mutant: only EVMC_FAILURE counts as a failed call.
SuccessFlag_not_failure(status) == IF status # "EVMC_FAILURE" THEN 1 ELSE 0

\* value.bytes[31] = (call_result.status_code == EVMC_SUCCESS)
SuccessFlag(status) == IF status = "EVMC_SUCCESS" THEN 1 ELSE 0

\* Mutant: the nested result is released before its output is copied.
CallEvents_release_first(in_off, in_len, out_off, n, release) ==
    <<Ev("mem_read", in_off, in_len), Ev("call", 0, 0)>>
    \o (IF release THEN <<Ev("release", 0, 0)>> ELSE <<>>)
    \o <<Ev("mem_write", out_off, n)>>

\* What the CALL case does with the host and the memory, in order: the input
\* slice handed over, host->call, memory.set of the output, release.
CallEvents(in_off, in_len, out_off, n, release) ==
    <<Ev("mem_read", in_off, in_len), Ev("call", 0, 0), Ev("mem_write", out_off, n)>>
    \o (IF release THEN <<Ev("release", 0, 0)>> ELSE <<>>)

\* case 0xf1: CALL
Call ==
    /\ Dispatch(OP_CALL)
    /\ \E w_gas \in StackRead(items, sp - 1), w_target \in StackRead(items, sp - 2),
          w_value \in StackRead(items, sp - 3), w_in_off \in StackRead(items, sp - 4),
          w_in_len \in StackRead(items, sp - 5), w_out_off \in StackRead(items, sp - 6),
          w_out_len \in StackRead(items, sp - 7), call_result \in CallResults :
          LET call_msg == CallMessage(w_gas, w_target, w_value, w_in_off, w_in_len, memory)
              call_output_offset == LowByte(w_out_off)
              call_output_size == CopySize(LowByte(w_out_len), Len(call_result.output))
          IN  /\ recorded_calls' = Append(recorded_calls, call_msg)
              /\ call_log' = Append(call_log,
                    [step |-> executed,
                     operands |-> <<w_gas, w_target, w_value, w_in_off, w_in_len,
                                    w_out_off, w_out_len>>,
                     result |-> call_result])
              /\ items' = StackWrite(items, sp - 7, WordOfByte(SuccessFlag(call_result.status_code)))
              /\ memory' = MemorySet(memory, call_output_offset,
                                     SubSeq(call_result.output, 1, call_output_size))
              /\ Break(CallEvents(call_msg.input_offset, call_msg.input_size,
                                  call_output_offset, call_output_size, call_result.release),
                       StackUB(sp - 7, sp - 1))
    /\ sp' = sp - 6
    /\ UNCHANGED <<storage, tx_context, storage_before, verbose, option_call>>

\* case 0xf3: RETURN
ReturnOp ==
    /\ Dispatch(OP_RETURN)
    /\ \E wi \in StackRead(items, sp - 1), ws \in StackRead(items, sp - 2) :
          Return("EVMC_SUCCESS", gas_left', MemorySlice(memory, LowByte(wi), LowByte(ws)),
                 <<Ev("mem_read", LowByte(wi), LowByte(ws))>>, StackUB(sp - 2, sp - 1))
    /\ sp' = sp - 2
    /\ UNCHANGED <<items, memory, storage, tx_context, storage_before, verbose, option_call, recorded_calls, call_log>>

\* Mutant: Byzantium itself is taken to predate REVERT.
RevertUndefined_inclusive(r) == r <= EVMC_BYZANTIUM

\* if (rev < EVMC_BYZANTIUM)
RevertUndefined(r) == r < EVMC_BYZANTIUM

\* case 0xfd: REVERT
Revert ==
    /\ Dispatch(OP_REVERT)
    /\ IF RevertUndefined(rev)
       THEN /\ Return("EVMC_UNDEFINED_INSTRUCTION", 0, <<>>, <<>>, {})
            /\ sp' = sp
       ELSE /\ \E wi \in StackRead(items, sp - 1), ws \in StackRead(items, sp - 2) :
                  Return("EVMC_REVERT", gas_left', MemorySlice(memory, LowByte(wi), LowByte(ws)),
                         <<Ev("mem_read", LowByte(wi), LowByte(ws))>>, StackUB(sp - 2, sp - 1))
            /\ sp' = sp - 2
    /\ UNCHANGED <<items, memory, storage, tx_context, storage_before, verbose, option_call, recorded_calls, call_log>>

----------------------------------------------------------------------------

Next ==
    \/ Execute
    \/ EndOfCode
    \/ GasExhausted
    \/ Undefined
    \/ Stop
    \/ Add
    \/ Address
    \/ CallDataLoad
    \/ Number
    \/ MStore
    \/ SLoad
    \/ SStore
    \/ MSize
    \/ Push1
    \/ Dup1
    \/ Call
    \/ ReturnOp
    \/ Revert

Spec == Init /\ [][Next]_vars

\* execute() is one synchronous loop: once called it keeps taking steps, every
\* host function returning, until it returns its result.
FairSpec == Spec /\ WF_vars(Next)

----------------------------------------------------------------------------
(* set_option *)

MaxValueLen == 2        \* option values of up to this many characters are tried

\* The characters option values are made of.
OptionChars == {" ", "+", "-", "0", "1", "9", "x"}

RECURSIVE StringsOfLen(_)
StringsOfLen(n) ==
    IF n = 0 THEN {<<>>}
    ELSE {<<ch>> \o s : ch \in OptionChars, s \in StringsOfLen(n - 1)}

\* const char* value: a null pointer or a string.
NullValue == [null |-> TRUE, chars |-> <<>>]
OptionValues ==
    {NullValue} \cup
    {[null |-> FALSE, chars |-> s] : s \in UNION {StringsOfLen(n) : n \in 0..MaxValueLen}}

OptionNames == {"verbose", "verbos"}

\* The value of character ch as a digit, 99 when it is not a digit.
DigitValue(ch) ==
    CASE ch = "0" -> 0
      [] ch = "1" -> 1
      [] ch = "9" -> 9
      [] OTHER -> 99

\* The index of the first character of s, from index i on, that is not white
\* space.
RECURSIVE SkipSpace(_, _)
SkipSpace(s, i) == IF i <= Len(s) /\ s[i] = " " THEN SkipSpace(s, i + 1) ELSE i

\* The digits of base b of s from index i on: their value after acc, and the
\* index of the first character that is not such a digit.
RECURSIVE Digits(_, _, _, _)
Digits(s, i, b, acc) ==
    IF i <= Len(s) /\ DigitValue(s[i]) < b
    THEN Digits(s, i + 1, b, acc * b + DigitValue(s[i]))
    ELSE [value |-> acc, next |-> i]

\* std::strtol(value, &end, 0): white space, an optional sign, then the digits
\* of a hexadecimal (0x), octal (0) or decimal number, as many as there are;
\* whatever follows is left unread.  end is the number of characters read, 0
\* when there is no digit to convert.  No string of MaxValueLen characters
\* reaches LONG_MAX.
Strtol(s) ==
    LET sign == SkipSpace(s, 1)
        negative == sign <= Len(s) /\ s[sign] = "-"
        first == IF sign <= Len(s) /\ s[sign] \in {"+", "-"} THEN sign + 1 ELSE sign
        hex == /\ first + 2 <= Len(s)
               /\ s[first] = "0"
               /\ s[first + 1] = "x"
               /\ DigitValue(s[first + 2]) < 16
        base == IF hex THEN 16 ELSE IF first <= Len(s) /\ s[first] = "0" THEN 8 ELSE 10
        start == IF hex THEN first + 2 ELSE first
        d == Digits(s, start, base, 0)
    IN  IF d.next = start THEN [value |-> 0, end |-> 0]
        ELSE [value |-> IF negative THEN 0 - d.value ELSE d.value, end |-> d.next - 1]

\* if (v > 9 || v < -1)
NotInRange(v) == v > 9 \/ v < -1

\* What set_option(instance, name, value) returns and the verbosity it leaves.
SetOptionOutcome(name, value) ==
    IF name = "verbose"
    THEN IF value.null
         THEN [returned |-> "EVMC_SET_OPTION_INVALID_VALUE", verbose |-> verbose]
         ELSE LET r == Strtol(value.chars) IN
              IF r.end = 0
              THEN [returned |-> "EVMC_SET_OPTION_INVALID_VALUE", verbose |-> verbose]
              ELSE IF NotInRange(r.value)
              THEN [returned |-> "EVMC_SET_OPTION_INVALID_VALUE", verbose |-> verbose]
              ELSE [returned |-> "EVMC_SET_OPTION_SUCCESS", verbose |-> r.value]
    ELSE [returned |-> "EVMC_SET_OPTION_INVALID_NAME", verbose |-> verbose]

\* set_option(instance, name, value)
SetOption(name, value) ==
    /\ verbose' = SetOptionOutcome(name, value).verbose
    /\ option_call' = [name |-> name, value |-> value,
                       returned |-> SetOptionOutcome(name, value).returned]
    /\ UNCHANGED <<state, code, rev, msg, pc, gas_left, sp, items, memory, storage,
                   tx_context, storage_before, recorded_calls, call_log, result, executed,
                   trace, ub>>

\* The client sets options on the VM instance it has created.
NextOption == \E name \in OptionNames, value \in OptionValues : SetOption(name, value)

SpecOption == Init /\ [][NextOption]_vars

----------------------------------------------------------------------------
(* Definitions used to state the properties *)

Halted == state = "halted"

\* The loop is about to charge and dispatch the instruction at pc.
AtInstruction == state = "running" /\ pc < Len(code)

\* The step executes a CALL instruction.
CallStep == Len(call_log') = Len(call_log) + 1

LastCall == call_log[Len(call_log)]

\* The word that denotes the integer n, 0 <= n < 2^31.
WordOfInt(n) ==
    [i \in 0..(WordSize - 1) |->
        IF WordSize - 1 - i < 4 THEN (n \div (ByteRange ^ (WordSize - 1 - i))) % ByteRange ELSE 0]

\* The names of the events of instruction s, in order.
StepEvents(s) ==
    LET evs == SelectSeq(trace, LAMBDA e : e.step = s)
    IN  [j \in 1..Len(evs) |-> evs[j].ev]

----------------------------------------------------------------------------
(* Properties *)

\* C1, as amended: for an execution whose message has a non-negative initial
\* gas, the gas_left of the returned result is at most the initial gas and is
\* not negative, however the execution ends.
C1_GasLeftWithinBudget ==
    (Halted /\ msg.gas >= 0) => (result.gas_left >= 0 /\ result.gas_left <= msg.gas)

\* C1 as stated, for any initial gas: fails for a negative initial gas, which an
\* empty code buffer returns unchanged and a non-empty one turns into 0.
C1_AnyInitialGas ==
    Halted => (result.gas_left >= 0 /\ result.gas_left <= msg.gas)

C1_Witness ==
    /\ Halted
    /\ msg.gas > 0
    /\ result.gas_left > 0
    /\ result.gas_left < msg.gas

\* C2: when pc reaches the code length with no halting opcode executed, the
\* result is Success with an empty output; for an empty code buffer nothing is
\* charged and the host is not called: gas_left is the initial gas.
C2_EndOfCodeIsSuccess ==
    (Halted /\ ~(pc < Len(code))) =>
        /\ result.status_code = "EVMC_SUCCESS"
        /\ result.output = <<>>
        /\ code = <<>> =>
              /\ result.gas_left = msg.gas
              /\ trace = <<>>
              /\ recorded_calls = <<>>
              /\ executed = 0

C2_Witness ==
    /\ Halted
    /\ code # <<>>
    /\ ~(pc < Len(code))
    /\ executed > 1
    /\ ub = {}

\* C3: a step that finds less than 1 gas left at an instruction halts with
\* OutOfGas and changes neither stack nor memory and makes no host call; so an
\* execution with initial gas g >= 0 executes at most g instructions.
C3_ChargeBeforeEffect ==
    [][/\ (AtInstruction /\ gas_left < 1) =>
            /\ state' = "halted"
            /\ result'.status_code = "EVMC_OUT_OF_GAS"
            /\ UNCHANGED <<sp, items, memory, storage, recorded_calls, call_log, trace,
                           executed>>
       /\ msg'.gas >= 0 => executed' <= msg'.gas]_vars

C3_Witness ==
    /\ Halted
    /\ result.status_code = "EVMC_OUT_OF_GAS"
    /\ msg.gas > 0
    /\ executed = msg.gas
    /\ memory.size > 0

\* C4: the stack holds between 0 and 1024 items in every state, and no
\* instruction reads or writes a cell outside the array: a pop on an empty stack
\* is an error, not a read below the base.
C4_StackWithinCapacity ==
    /\ sp >= 0
    /\ sp <= StackCapacity
    /\ "stack_out_of_bounds" \notin ub

\* C5: a REVERT that is dispatched halts with UndefinedInstruction under a
\* revision before Byzantium, and with Revert under Byzantium or later.
C5_RevertByRevision ==
    [][(AtInstruction /\ gas_left >= 1 /\ CodeAt(code, pc) = OP_REVERT) =>
          /\ state' = "halted"
          /\ result'.status_code =
                IF rev < EVMC_BYZANTIUM THEN "EVMC_UNDEFINED_INSTRUCTION" ELSE "EVMC_REVERT"]_vars

C5_Witness ==
    /\ Halted
    /\ pc < Len(code)
    /\ CodeAt(code, pc) = OP_REVERT
    /\ rev < EVMC_BYZANTIUM
    /\ result.status_code = "EVMC_UNDEFINED_INSTRUCTION"

\* C6: a result with status UndefinedInstruction or OutOfGas has gas_left 0 and
\* an empty output, whatever the initial gas and the memory contents.
C6_FailureResultIsEmpty ==
    (Halted /\ result.status_code \in {"EVMC_UNDEFINED_INSTRUCTION", "EVMC_OUT_OF_GAS"}) =>
        (result.gas_left = 0 /\ result.output = <<>>)

C6_Witness ==
    /\ Halted
    /\ result.status_code = "EVMC_UNDEFINED_INSTRUCTION"
    /\ msg.gas > executed
    /\ memory.size > 0
    /\ result.gas_left = 0

C8_NestedFailureDoesNotHalt ==
    [][CallStep =>
          LET c == call_log'[Len(call_log')]
          IN  /\ state' = "running"
              /\ pc' = pc + 1
              /\ sp' = sp - 6
              /\ items'[sp' - 1] =
                    WordOfByte(IF c.result.status_code = "EVMC_SUCCESS" THEN 1 ELSE 0)]_vars

C8_Witness ==
    /\ Halted
    /\ Len(call_log) = 1
    /\ LastCall.result.status_code = "EVMC_REVERT"
    /\ executed > LastCall.step + 1
    /\ result.status_code = "EVMC_SUCCESS"
    /\ ub = {}

\* C9: every CALL instruction executed calls host.call once, then copies the
\* output, then calls release once when it is not null, all before the next
\* instruction is fetched or the execution returns; no other instruction calls
\* host.call or release.
C9_CallThenCopyThenRelease ==
    /\ Len(recorded_calls) = Len(call_log)
    /\ \A k \in 1..Len(call_log) :
          StepEvents(call_log[k].step) =
              <<"fetch", "mem_read", "call", "mem_write">>
              \o (IF call_log[k].result.release THEN <<"release">> ELSE <<>>)
    /\ \A j \in 1..Len(trace) :
          /\ trace[j].ev \in {"call", "release"} =>
                \E k \in 1..Len(call_log) : call_log[k].step = trace[j].step
          /\ (trace[j].ev = "fetch" /\ CodeAt(code, trace[j].at) = OP_CALL) =>
                \E k \in 1..Len(call_log) : call_log[k].step = trace[j].step
          /\ j < Len(trace) => trace[j].step <= trace[j + 1].step

C9_Witness ==
    /\ Halted
    /\ Len(call_log) = 1
    /\ LastCall.result.release
    /\ executed > LastCall.step + 1
    /\ ub = {}

\* C10: in an execution with no out-of-bounds access, every message passed to
\* host.call has the gas operand as its gas, the low 20 bytes of the target
\* operand as its destination, the value operand as its value, the memory slice
\* at in-off of in-len bytes as its input, and flags 0.
C10_MessageFromOperands ==
    ub = {} =>
        \A k \in 1..Len(call_log) :
            LET m == recorded_calls[k]
                o == call_log[k].operands
            IN  /\ WordOfInt(m.gas) = o[1]
                /\ m.destination = AddressOfWord(o[2])
                /\ m.value = o[3]
                /\ WordOfInt(m.input_offset) = o[4]
                /\ WordOfInt(m.input_size) = o[5]
                /\ Len(m.input_data) = m.input_size
                /\ m.flags = 0

\* The word that is one more than w, modulo 2^256: a byte changes when every
\* byte of lower order carries.
WordSuccessor(w) ==
    [i \in 0..(WordSize - 1) |->
        IF \A j \in (i + 1)..(WordSize - 1) : w[j] = ByteRange - 1
        THEN (w[i] + 1) % ByteRange
        ELSE w[i]]

\* The events of the host's storage functions, in order.
StorageEvents == SelectSeq(trace, LAMBDA e : e.ev \in {"get_storage", "set_storage"})

\* C11: the counter program, run with at least 7 gas, changes the slot with key
\* zero of the message destination from its prior value V to V + 1 for every
\* word V, accesses storage only at that slot, leaves every other slot as it
\* was, and returns EVMC_SUCCESS with an empty output and 7 gas less than the
\* initial gas.
C11_CounterInStorage ==
    (Halted /\ code = Code_counter_in_storage /\ msg.gas >= 7) =>
        /\ result = [status_code |-> "EVMC_SUCCESS", gas_left |-> msg.gas - 7, output |-> <<>>]
        /\ GetStorage(storage, msg.destination, ZeroWord)
               = WordSuccessor(GetStorage(storage_before, msg.destination, ZeroWord))
        /\ \A j \in 1..Len(StorageEvents) :
               StorageEvents[j].address = msg.destination /\ StorageEvents[j].key = ZeroWord
        /\ \A slot \in (DOMAIN storage \cup DOMAIN storage_before) \ {<<msg.destination, ZeroWord>>} :
               GetStorage(storage, slot[1], slot[2]) = GetStorage(storage_before, slot[1], slot[2])

\* The loop is about to dispatch opcode op: there is gas for the instruction
\* at pc.
Executing(op) == AtInstruction /\ gas_left >= 1 /\ CodeAt(code, pc) = op

\* The last entry of a trace.
LastEvent(t) == t[Len(t)]

\* Some MSTORE or CALL of the trace has written memory offset i.
Written(t, i) ==
    \E j \in 1..Len(t) : t[j].ev = "mem_write" /\ i >= t[j].at /\ i < t[j].at + t[j].n

\* Memory bytes d with bytes k to 31 of word w put at offsets o + k to o + 31,
\* byte 0 of a word being its most significant, and every other byte as in d.
RECURSIVE WordStored(_, _, _, _)
WordStored(d, o, w, k) ==
    IF k = WordSize THEN d
    ELSE WordStored([d EXCEPT ![o + k] = w[k]], o, w, k + 1)

\* The bytes of an address, first byte first.
AddressBytes(a) == [i \in 1..AddressSize |-> a[i - 1]]

RECURSIVE Instructions(_, _, _)
Instructions(c, i, stop) ==
    IF i >= Len(c) \/ i > stop THEN 0
    ELSE 1 + Instructions(c, i + (IF CodeAt(c, i) = OP_PUSH1 THEN 2 ELSE 1), stop)

\* C13: an execution that ends with EVMC_SUCCESS or EVMC_REVERT returns the
\* initial gas less 1 for every instruction executed, the halting one included.
\* A PUSH1 and its immediate are one instruction: the immediate is not charged
\* and never fetched as an opcode.  A CALL is one instruction whatever its gas
\* operand and whatever the nested call returns.
C13_OneGasPerInstruction ==
    (Halted /\ result.status_code \in {"EVMC_SUCCESS", "EVMC_REVERT"}) =>
        /\ executed = Instructions(code, 0, pc)
        /\ result.gas_left = msg.gas - Instructions(code, 0, pc)
        /\ Len(SelectSeq(trace, LAMBDA e : e.ev = "fetch")) = executed
        /\ \A j, k \in 1..Len(trace) :
               (trace[j].ev = "immediate" /\ trace[k].ev = "fetch") => trace[j].at # trace[k].at

C13_Witness ==
    /\ Halted
    /\ code = Code_call
    /\ result.status_code = "EVMC_SUCCESS"
    /\ Len(call_log) = 1
    /\ LastCall.result.status_code = "EVMC_FAILURE"
    /\ executed = 11
    /\ Len(code) = 13
    /\ result.gas_left = msg.gas - 11

\* A string is numeric when it is a number from its first character to its
\* last: strtol converts all of it.
IsNumeric(s) == Len(s) > 0 /\ Strtol(s).end = Len(s)

\* The value is one the claim accepts: a numeric string of a number in [-1, 9].
InRangeNumeric(value) ==
    /\ ~value.null
    /\ IsNumeric(value.chars)
    /\ Strtol(value.chars).value \in -1..9

\* C14: after every set_option call the verbosity is in [-1, 9].  A call with
\* name "verbose" and a value that is null, not numeric or not in [-1, 9]
\* returns EVMC_SET_OPTION_INVALID_VALUE and leaves the verbosity as it was; a
\* call with another name returns EVMC_SET_OPTION_INVALID_NAME and leaves the
\* verbosity as it was; a call with name "verbose" and a numeric value in
\* [-1, 9], and only such a call, returns EVMC_SET_OPTION_SUCCESS and sets the
\* verbosity to that value.
C14_SetOptionContract ==
    [][LET c == option_call' IN
       c.returned # "NONE" =>
           /\ verbose' \in -1..9
           /\ c.name # "verbose" =>
                  c.returned = "EVMC_SET_OPTION_INVALID_NAME" /\ verbose' = verbose
           /\ (c.name = "verbose" /\ ~InRangeNumeric(c.value)) =>
                  c.returned = "EVMC_SET_OPTION_INVALID_VALUE" /\ verbose' = verbose
           /\ (c.name = "verbose" /\ InRangeNumeric(c.value)) =>
                  c.returned = "EVMC_SET_OPTION_SUCCESS" /\ verbose' = Strtol(c.value.chars).value
      ]_vars

\* C15: every execution eventually halts: a running execution always has a
\* next step, every step it takes halts it or moves pc forward, and pc is never
\* more than one past the end of the code.  It has no result before it halts
\* and one once it has halted, and after that takes no further step: nothing is
\* decoded or executed and no host function is called.  It executes at most as
\* many instructions as the code has bytes.
C15_EventuallyHalts ==
    /\ [](state = "running" => ENABLED Next)
    /\ [](state = "running" => pc <= Len(code) + 1)
    /\ [](IF Halted THEN result.status_code # "NONE" ELSE result = NoResult)
    /\ [][/\ ~Halted
          /\ state = "running" => (state' = "halted" \/ (state' = "running" /\ pc' > pc))
          /\ executed' <= Len(code')]_vars

C15_Witness ==
    /\ Halted
    /\ result.status_code = "EVMC_SUCCESS"
    /\ pc = Len(code)
    /\ executed = Len(code)
    /\ executed >= 2
    /\ Len(trace) > executed

\* What is carried into byte i when words a and b are added, byte 31 being the
\* least significant.
RECURSIVE CarryInto(_, _, _)
CarryInto(a, b, i) ==
    IF i = WordSize - 1 THEN 0
    ELSE (a[i + 1] + b[i + 1] + CarryInto(a, b, i + 1)) \div ByteRange

\* (a + b) mod 2^256
WordSum(a, b) ==
    [i \in 0..(WordSize - 1) |-> (a[i] + b[i] + CarryInto(a, b, i)) % ByteRange]

\* C16: ADD pops two words a and b and pushes (a + b) mod 2^256, computed over
\* all 32 bytes: 0xff + 1 is 0x100.
C16_AddFullWidth ==
    [][(Executing(OP_ADD) /\ sp >= 2) =>
          /\ sp' = sp - 1
          /\ items'[sp' - 1] = WordSum(items[sp - 1], items[sp - 2])]_vars

\* C17: the gas charge and the out-of-gas check come before the opcode is
\* decoded.  When an execution halts at an instruction, gas_left + 1 is the gas
\* that remained before that step: if it was 0 (or less) the result is
\* EVMC_OUT_OF_GAS and the opcode was not fetched, whatever the byte at pc, an
\* undefined opcode and a REVERT before Byzantium included; and
\* EVMC_UNDEFINED_INSTRUCTION is returned only when it was at least 1.
C17_GasCheckBeforeDecode ==
    (Halted /\ pc < Len(code)) =>
        /\ gas_left + 1 <= 0 => result.status_code = "EVMC_OUT_OF_GAS"
        /\ result.status_code = "EVMC_OUT_OF_GAS" =>
               /\ gas_left + 1 <= 0
               /\ \A j \in 1..Len(trace) : ~(trace[j].ev = "fetch" /\ trace[j].at = pc)
        /\ result.status_code = "EVMC_UNDEFINED_INSTRUCTION" => gas_left + 1 >= 1

C17_Witness ==
    /\ Halted
    /\ pc < Len(code)
    /\ CodeAt(code, pc) = UndefinedOpcode
    /\ result.status_code = "EVMC_OUT_OF_GAS"
    /\ msg.gas >= 1
    /\ executed = msg.gas

\* The greatest offset + length of the memory writes of a trace, 0 when there
\* is none.
MaxWriteEnd(t) ==
    LET ends == {0} \cup {t[j].at + t[j].n : j \in {k \in 1..Len(t) : t[k].ev = "mem_write"}}
    IN  CHOOSE m \in ends : \A e \in ends : e <= m

\* The memory size is 0 when execute() starts, no step decreases it, and it is
\* the greatest offset + length of the writes made so far.
MemorySizeTracksWrites ==
    /\ state = "idle" => memory'.size = 0
    /\ state = "running" => memory'.size >= memory.size
    /\ memory'.size = MaxWriteEnd(trace')

\* C18: within one execution the memory size starts at 0, never decreases and
\* after every step is the greatest offset + length of the memory writes made
\* so far (32 bytes for MSTORE, min(out-len, nested output length) for CALL);
\* MSIZE pushes exactly that size as a word.  Stated for the executions that
\* keep the stack and the code reads in bounds.
C18_MemorySize ==
    [][ub' = {} =>
          /\ MemorySizeTracksWrites
          /\ Executing(OP_MSIZE) =>
                 /\ sp' = sp + 1
                 /\ items'[sp] = WordOfInt(memory.size)]_vars

\* The memory accesses of a trace: the MSTORE and CALL output writes, the CALL
\* input slices and the RETURN and REVERT output slices.
MemoryAccesses(t) == SelectSeq(t, LAMBDA e : e.ev \in {"mem_read", "mem_write"})

\* C19: every memory access stays inside the 1024-byte buffer: the offset and
\* the length of every MSTORE write, CALL input slice, CALL output write and
\* RETURN or REVERT output slice are each between 0 and 255, whatever the
\* operand words, so offset + length is at most 1024.
C19_MemoryAccessInBounds ==
    \A j \in 1..Len(MemoryAccesses(trace)) :
        LET e == MemoryAccesses(trace)[j]
        IN  /\ e.at >= 0 /\ e.at < ByteRange
            /\ e.n >= 0 /\ e.n < ByteRange
            /\ e.at + e.n <= MemoryCapacity

C19_Witness ==
    /\ Halted
    /\ code = Code_store_call(14)
    /\ Len(MemoryAccesses(trace)) = 4
    /\ \E j \in 1..4 : MemoryAccesses(trace)[j].ev = "mem_read" /\ MemoryAccesses(trace)[j].n = 14
    /\ \E j \in 1..4 : MemoryAccesses(trace)[j].ev = "mem_write" /\ MemoryAccesses(trace)[j].at = 14
    /\ ub = {}

\* C20: an execution never reads the code buffer at or past its length: every
\* opcode fetch and every fetch of a PUSH1 immediate is at an index below
\* code_size, also when PUSH1 is the last byte of the code.
C20_CodeReadsInBounds ==
    /\ "code_out_of_bounds" \notin ub
    /\ \A j \in 1..Len(trace) :
           trace[j].ev \in {"fetch", "immediate"} => trace[j].at < Len(code)

====
